---- MODULE Spec2Model ----
(***************************************************************************)
(* MarkdownRenderer (server/events/markdown_renderer.go).                  *)
(*                                                                         *)
(* Text is modelled as a sequence of pieces: every literal run of a        *)
(* template is one piece, every "\n" is a piece of its own and every       *)
(* interpolated value ({{.Command}}, {{.Error}}, {{$path}}, ...) is one    *)
(* piece.  String concatenation is \o.  A rendered document is therefore   *)
(* the flat piece sequence the template writes into its buffer.            *)
(* The backquote character of the templates is written ' in the pieces.    *)
(***************************************************************************)
EXTENDS Integers, Sequences, FiniteSets, TLC

VARIABLES
    res,        \* the CommandResponse passed to Render
    heap,       \* the PlanSuccess objects the project results point to
    cmdName,    \* the CommandName passed to Render
    log,        \* the log text passed to Render
    verbose,    \* the verbose flag passed to Render
    outs,       \* the strings returned by the calls of Render so far
    calls,      \* arguments of the LockURLBuilder calls of the last Render
    frags,      \* values assigned to results[result.Path], in loop order
    failed      \* template executions that returned an error in the last Render

vars == <<res, heap, cmdName, log, verbose, outs, calls, frags, failed>>

----------------------------------------------------------------------------
(* Bounds of the model *)

MaxProjects == 2        \* longest ProjectResults slice
MaxCalls == 2           \* calls of Render on the same response

----------------------------------------------------------------------------
(* Values *)

Nil == <<>>                             \* a nil error; <<msg>> is an error value
NilPtr == 0                             \* a nil *PlanSuccess
Paths == {"a", "ab", "b"}
CommandNames == {"plan", "apply"}

\* the bytes of a path, for Go's string comparison
Bytes(p) ==
    CASE p = "a" -> <<97>>
      [] p = "ab" -> <<97, 98>>
      [] p = "b" -> <<98>>

\* Go's s < t on strings: bytewise lexicographic
RECURSIVE SeqLess(_, _)
SeqLess(s, t) ==
    IF t = <<>> THEN FALSE
    ELSE IF s = <<>> THEN TRUE
    ELSE IF Head(s) # Head(t) THEN Head(s) < Head(t)
    ELSE SeqLess(Tail(s), Tail(t))

StringLess(p, q) == SeqLess(Bytes(p), Bytes(q))

\* strings.Title(cmdName.String())
Title(name) ==
    CASE name = "plan" -> "Plan"
      [] name = "apply" -> "Apply"

\* the caller's LockURLBuilder: builder(k) = "http://x/" + k
LockURLBuilder(key) ==
    CASE key = "L1" -> "http://x/L1"
      [] key = "L2" -> "http://x/L2"

\* the PlanSuccess objects a response can point to, as the executor leaves them
InitHeap ==
    1 :> [TerraformOutput |-> "+ resource", LockKey |-> "L1", LockURL |-> ""] @@
    2 :> [TerraformOutput |-> "- resource", LockKey |-> "L2", LockURL |-> ""]

CommonData(c, v, l) == [Command |-> c, Verbose |-> v, Log |-> l]

RECURSIVE Concat(_)
Concat(ss) == IF ss = <<>> THEN <<>> ELSE Head(ss) \o Concat(Tail(ss))

----------------------------------------------------------------------------
(* text/template: range over a map visits the keys in sorted order *)

MinKey(S) == CHOOSE p \in S : \A q \in S \ {p} : StringLess(p, q)

SortedKeysDescending(S) ==
    LET MaxKey(T) == CHOOSE p \in T : \A q \in T \ {p} : StringLess(q, p)
        RECURSIVE Down(_)
        Down(T) == IF T = {} THEN <<>> ELSE <<MaxKey(T)>> \o Down(T \ {MaxKey(T)})
    IN Down(S)

RECURSIVE SortedKeys(_)
SortedKeys(S) ==
    IF S = {} THEN <<>> ELSE <<MinKey(S)>> \o SortedKeys(S \ {MinKey(S)})

----------------------------------------------------------------------------
(* The templates *)

logTmpl(d) ==
    (IF d.Verbose
     THEN <<"\n", "<details><summary>Log</summary>", "\n", "  <p>", "\n", "\n",
            "'''", "\n", d.Log, "'''", "\n", "</p></details>">>
     ELSE <<>>) \o <<"\n">>

errTmplText(d) ==
    <<"**", d.Command, " Error**", "\n", "'''", "\n", d.Error, "\n", "'''", "\n">>

errTmpl(d) == errTmplText(d)

errWithLogTmpl(d) == errTmplText(d) \o logTmpl(d)

failureTmplText(d) == <<"**", d.Command, " Failed**: ", d.Failure, "\n">>

failureTmpl(d) == failureTmplText(d)

failureWithLogTmpl(d) == failureTmplText(d) \o logTmpl(d)

planSuccessTmpl(d) ==
    <<"'''diff", "\n", d.TerraformOutput, "\n", "'''", "\n", "\n",
      "* To **discard** this plan click [here](", d.LockURL, ").">>

applySuccessTmpl(d) == <<"'''diff", "\n", d.Output, "\n", "'''">>

singleProjectTmpl(d) ==
    Concat([k \in 1..Cardinality(DOMAIN d.Results) |->
               d.Results[SortedKeys(DOMAIN d.Results)[k]]])
    \o <<"\n">> \o logTmpl(d)

\* {{ range $path, $result := .Results }} * '{{$path}}'\n{{end}}
bulletList(d) ==
    Concat([k \in 1..Cardinality(DOMAIN d.Results) |->
               <<" * '", SortedKeys(DOMAIN d.Results)[k], "'", "\n">>])

sectionListNoRule(d) ==
    Concat([k \in 1..Cardinality(DOMAIN d.Results) |->
               <<"## ", SortedKeys(DOMAIN d.Results)[k], "/", "\n">>
               \o d.Results[SortedKeys(DOMAIN d.Results)[k]]
               \o <<"\n">>])

\* {{ range $path, $result := .Results }}## {{$path}}/\n{{$result}}\n---\n{{end}}
sectionList(d) ==
    Concat([k \in 1..Cardinality(DOMAIN d.Results) |->
               <<"## ", SortedKeys(DOMAIN d.Results)[k], "/", "\n">>
               \o d.Results[SortedKeys(DOMAIN d.Results)[k]]
               \o <<"\n", "---", "\n">>])

multiProjectTmplLogPerSection(d) ==
    <<"Ran ", d.Command, " in ", ToString(Cardinality(DOMAIN d.Results)),
      " directories:", "\n">>
    \o bulletList(d) \o <<"\n">>
    \o Concat([k \in 1..Cardinality(DOMAIN d.Results) |->
                  <<"## ", SortedKeys(DOMAIN d.Results)[k], "/", "\n">>
                  \o d.Results[SortedKeys(DOMAIN d.Results)[k]]
                  \o <<"\n", "---", "\n">> \o logTmpl(d)])

multiProjectTmpl(d) ==
    <<"Ran ", d.Command, " in ", ToString(Cardinality(DOMAIN d.Results)),
      " directories:", "\n">>
    \o bulletList(d) \o <<"\n">>
    \o sectionList(d)
    \o logTmpl(d)

----------------------------------------------------------------------------
(* renderTemplate: tmpl.Execute either fills the buffer or returns an error *)

ExecError == "template: executing failed"

renderTemplateEmptyOnError(text, fails) == IF fails THEN <<>> ELSE text

renderTemplate(text, fails) ==
    IF fails
    THEN <<"Failed to render template, this is a bug: ", ExecError>>
    ELSE text

----------------------------------------------------------------------------
(* renderProjectResults *)

\* results[path] = fragment on a Go map
Put(results, path, fragment) ==
    [q \in (DOMAIN results) \cup {path} |->
        IF q = path THEN fragment ELSE results[q]]

planSuccessStepRenderFirst(h, ptr, fails) ==
    [heap |-> [h EXCEPT ![ptr].LockURL = LockURLBuilder(h[ptr].LockKey)],
     key  |-> h[ptr].LockKey,
     frag |-> renderTemplate(planSuccessTmpl(h[ptr]), fails)]

\* result.PlanSuccess.LockURL = m.LockURLBuilder(result.PlanSuccess.LockKey)
\* results[result.Path] = m.renderTemplate(planSuccessTmpl, *result.PlanSuccess)
planSuccessStep(h, ptr, fails) ==
    LET h2 == [h EXCEPT ![ptr].LockURL = LockURLBuilder(h[ptr].LockKey)]
    IN [heap |-> h2,
        key  |-> h[ptr].LockKey,
        frag |-> renderTemplate(planSuccessTmpl(h2[ptr]), fails)]

Assign(acc, result, fragment) ==
    [acc EXCEPT !.results = Put(acc.results, result.Path, fragment),
                !.frags = Append(acc.frags, fragment)]

\* the builder is called for every result that carries a PlanSuccess
projectStepEagerBuilder(acc, result, common, fails) ==
    LET acc2 == IF result.PlanSuccess # NilPtr
                THEN [acc EXCEPT
                        !.heap = planSuccessStep(acc.heap, result.PlanSuccess, fails).heap,
                        !.calls = Append(acc.calls, acc.heap[result.PlanSuccess].LockKey)]
                ELSE acc
    IN
    IF result.Error # Nil THEN
        Assign(acc2, result,
               renderTemplate(errTmpl([Command |-> common.Command,
                                       Error |-> result.Error[1]]), fails))
    ELSE IF result.Failure # "" THEN
        Assign(acc2, result,
               renderTemplate(failureTmpl([Command |-> common.Command,
                                           Failure |-> result.Failure]), fails))
    ELSE IF result.PlanSuccess # NilPtr THEN
        Assign(acc2, result,
               renderTemplate(planSuccessTmpl(acc2.heap[result.PlanSuccess]), fails))
    ELSE IF result.ApplySuccess # "" THEN
        Assign(acc2, result,
               renderTemplate(applySuccessTmpl([Output |-> result.ApplySuccess]), fails))
    ELSE
        Assign(acc2, result, <<"Found no template. This is a bug!">>)

\* a result with no variant populated is skipped
projectStepSkipEmpty(acc, result, common, fails) ==
    IF result.Error # Nil THEN
        Assign(acc, result,
               renderTemplate(errTmpl([Command |-> common.Command,
                                       Error |-> result.Error[1]]), fails))
    ELSE IF result.Failure # "" THEN
        Assign(acc, result,
               renderTemplate(failureTmpl([Command |-> common.Command,
                                           Failure |-> result.Failure]), fails))
    ELSE IF result.PlanSuccess # NilPtr THEN
        LET p == planSuccessStep(acc.heap, result.PlanSuccess, fails)
        IN Assign([acc EXCEPT !.heap = p.heap, !.calls = Append(acc.calls, p.key)],
                  result, p.frag)
    ELSE IF result.ApplySuccess # "" THEN
        Assign(acc, result,
               renderTemplate(applySuccessTmpl([Output |-> result.ApplySuccess]), fails))
    ELSE
        [acc EXCEPT !.frags = Append(acc.frags, <<>>)]

\* one iteration of `for _, result := range pathResults`
projectStep(acc, result, common, fails) ==
    IF result.Error # Nil THEN
        Assign(acc, result,
               renderTemplate(errTmpl([Command |-> common.Command,
                                       Error |-> result.Error[1]]), fails))
    ELSE IF result.Failure # "" THEN
        Assign(acc, result,
               renderTemplate(failureTmpl([Command |-> common.Command,
                                           Failure |-> result.Failure]), fails))
    ELSE IF result.PlanSuccess # NilPtr THEN
        LET p == planSuccessStep(acc.heap, result.PlanSuccess, fails)
        IN Assign([acc EXCEPT !.heap = p.heap, !.calls = Append(acc.calls, p.key)],
                  result, p.frag)
    ELSE IF result.ApplySuccess # "" THEN
        Assign(acc, result,
               renderTemplate(applySuccessTmpl([Output |-> result.ApplySuccess]), fails))
    ELSE
        Assign(acc, result, <<"Found no template. This is a bug!">>)

RECURSIVE rangeResults(_, _, _, _, _)
rangeResults(pathResults, i, acc, common, F) ==
    IF i > Len(pathResults) THEN acc
    ELSE rangeResults(pathResults, i + 1,
                      projectStep(acc, pathResults[i], common, i \in F),
                      common, F)

outerTmplAlwaysMulti(d) == multiProjectTmpl(d)

\* if len(results) == 1 { tmpl = singleProjectTmpl } else { tmpl = multiProjectTmpl }
outerTmpl(d) ==
    IF Cardinality(DOMAIN d.Results) = 1
    THEN singleProjectTmpl(d)
    ELSE multiProjectTmpl(d)

renderProjectResults(pathResults, common, h, F) ==
    LET acc == rangeResults(pathResults, 1,
                            [results |-> <<>>, heap |-> h, calls |-> <<>>, frags |-> <<>>],
                            common, F)
    IN [out   |-> renderTemplate(outerTmpl([Results |-> acc.results] @@ common), 0 \in F),
        heap  |-> acc.heap,
        calls |-> acc.calls,
        frags |-> acc.frags]

----------------------------------------------------------------------------
(* Render *)

RenderFailureFirst(r, name, l, v, h, F) ==
    LET common == CommonData(Title(name), v, l) IN
    IF r.Failure # "" THEN
        [out   |-> renderTemplate(failureWithLogTmpl([Failure |-> r.Failure] @@ common),
                                  0 \in F),
         heap |-> h, calls |-> <<>>, frags |-> <<>>]
    ELSE IF r.Error # Nil THEN
        [out   |-> renderTemplate(errWithLogTmpl([Error |-> r.Error[1]] @@ common), 0 \in F),
         heap |-> h, calls |-> <<>>, frags |-> <<>>]
    ELSE renderProjectResults(r.ProjectResults, common, h, F)

Render(r, name, l, v, h, F) ==
    LET common == CommonData(Title(name), v, l) IN
    IF r.Error # Nil THEN
        [out   |-> renderTemplate(errWithLogTmpl([Error |-> r.Error[1]] @@ common), 0 \in F),
         heap |-> h, calls |-> <<>>, frags |-> <<>>]
    ELSE IF r.Failure # "" THEN
        [out   |-> renderTemplate(failureWithLogTmpl([Failure |-> r.Failure] @@ common),
                                  0 \in F),
         heap |-> h, calls |-> <<>>, frags |-> <<>>]
    ELSE renderProjectResults(r.ProjectResults, common, h, F)

\* the template executions one Render performs: 0 is the document's template,
\* i the fragment template of pathResults[i]
Executions(r) ==
    IF r.Error # Nil \/ r.Failure # "" THEN {0}
    ELSE {0} \cup {i \in 1..Len(r.ProjectResults) :
                      \/ r.ProjectResults[i].Error # Nil
                      \/ r.ProjectResults[i].Failure # ""
                      \/ r.ProjectResults[i].PlanSuccess # NilPtr
                      \/ r.ProjectResults[i].ApplySuccess # ""}

----------------------------------------------------------------------------
(* The state machine: a caller renders one response, possibly again *)

\* which of Error, Failure, PlanSuccess, ApplySuccess a project result carries
Populated ==
    { [Error |-> Nil,        Failure |-> "",             PlanSuccess |-> NilPtr, ApplySuccess |-> ""],
      [Error |-> <<"boom">>, Failure |-> "",             PlanSuccess |-> NilPtr, ApplySuccess |-> ""],
      [Error |-> Nil,        Failure |-> "tests failed", PlanSuccess |-> NilPtr, ApplySuccess |-> ""],
      [Error |-> Nil,        Failure |-> "",             PlanSuccess |-> 1,      ApplySuccess |-> ""],
      [Error |-> Nil,        Failure |-> "",             PlanSuccess |-> NilPtr, ApplySuccess |-> "Apply complete!"],
      [Error |-> <<"boom">>, Failure |-> "tests failed", PlanSuccess |-> 1,      ApplySuccess |-> "Apply complete!"],
      [Error |-> Nil,        Failure |-> "tests failed", PlanSuccess |-> 1,      ApplySuccess |-> "Apply complete!"],
      [Error |-> Nil,        Failure |-> "",             PlanSuccess |-> 2,      ApplySuccess |-> "Apply complete!"] }

ProjectResultValues == {[Path |-> p] @@ v : p \in Paths, v \in Populated}

SeqsUpTo(S, n) == UNION {[1..k -> S] : k \in 0..n}

Init ==
    /\ res \in [Error : {Nil, <<"cannot run">>},
                Failure : {"", "command failed"},
                ProjectResults : SeqsUpTo(ProjectResultValues, MaxProjects)]
    /\ heap = InitHeap
    /\ cmdName \in CommandNames
    /\ log = "log text"
    /\ verbose \in BOOLEAN
    /\ outs = <<>>
    /\ calls = <<>>
    /\ frags = <<>>
    /\ failed = {}

Return(r, F) ==
    /\ outs' = Append(outs, r.out)
    /\ heap' = r.heap
    /\ calls' = r.calls
    /\ frags' = r.frags
    /\ failed' = F
    /\ UNCHANGED <<res, cmdName, log, verbose>>

\* Render(res, cmdName, log, verbose), every template execution succeeding
RenderCall ==
    /\ Len(outs) < MaxCalls
    /\ Return(Render(res, cmdName, log, verbose, heap, {}), {})

\* Render(res, cmdName, log, verbose), the executions in F returning an error
RenderCallExecError ==
    /\ outs = <<>>
    /\ \E F \in SUBSET Executions(res) :
          Return(Render(res, cmdName, log, verbose, heap, F), F)

Next == RenderCall

Spec == Init /\ [][Next]_vars

NextExecError == RenderCallExecError

SpecExecError == Init /\ [][NextExecError]_vars

----------------------------------------------------------------------------
(* Vocabulary of the properties *)

Contains(sub, s) ==
    \E k \in 1..(Len(s) - Len(sub) + 1) : SubSeq(s, k, k + Len(sub) - 1) = sub

Count(sub, s) ==
    Cardinality({k \in 1..(Len(s) - Len(sub) + 1) : SubSeq(s, k, k + Len(sub) - 1) = sub})

IsPrefix(p, s) == Len(p) <= Len(s) /\ SubSeq(s, 1, Len(p)) = p

IsSuffix(p, s) == Len(p) <= Len(s) /\ SubSeq(s, Len(s) - Len(p) + 1, Len(s)) = p

NoNewlines(s) == SelectSeq(s, LAMBDA x : x # "\n")

Rendered == outs # <<>>
Last == outs[Len(outs)]
Label == Title(cmdName)
Projects == res.ProjectResults
NumProjects == Len(res.ProjectResults)
NoTopLevel == res.Error = Nil /\ res.Failure = ""
DistinctPaths ==
    \A i, j \in 1..NumProjects : i # j => Projects[i].Path # Projects[j].Path

\* the collapsible block wrapping the log text
LogBlock ==
    <<"<details><summary>Log</summary>", "\n", "  <p>", "\n", "\n",
      "'''", "\n", log, "'''", "\n", "</p></details>">>

BannerOf(n) == <<"Ran ", Label, " in ", ToString(n), " directories:", "\n">>
BulletOf(path) == <<" * '", path, "'", "\n">>
HeaderOf(path) == <<"## ", path, "/", "\n">>
Rule == <<"\n", "---", "\n">>
DiscardLink(url) == <<"* To **discard** this plan click [here](", url, ").">>
FailureText == <<"Failed to render template, this is a bug: ", ExecError>>
NoTemplateText == <<"Found no template. This is a bug!">>

\* the i-th project result is rendered with the plan-success template
PlanRendered(i) == Contains(<<"* To **discard** this plan click [here](">>, frags[i])

\* the project result carries a PlanSuccess and nothing that outranks it
IsPlanSuccess(r) == r.Error = Nil /\ r.Failure = "" /\ r.PlanSuccess # NilPtr

IsEmptyVariant(r) ==
    r.Error = Nil /\ r.Failure = "" /\ r.PlanSuccess = NilPtr /\ r.ApplySuccess = ""

\* the pieces that follow each occurrence of `mark` in s, in order
Following(mark, s) ==
    LET at == SelectSeq([k \in 1..Len(s) |-> k], LAMBDA k : s[k] = mark /\ k < Len(s))
    IN [n \in 1..Len(at) |-> s[at[n] + 1]]

Ascending(ps) == \A n \in 1..(Len(ps) - 1) : StringLess(ps[n], ps[n + 1])

----------------------------------------------------------------------------
(* C1: Render interprets exactly one top-level variant, in the order error,
   failure, project results.  With Error set the output is the error document
   (heading "**{Label} Error**", the message, the optional log) and neither a
   project result is rendered nor the builder called, whatever Failure and
   ProjectResults hold; with Error unset and Failure non-empty the output is
   the failure document and no project result is rendered; project results
   are rendered only when both are unset. *)
C1_OneTopLevelVariant ==
    Rendered =>
      /\ res.Error # Nil =>
            /\ Contains(<<"**", Label, " Error**">>, Last)
            /\ NoNewlines(Last) =
                  <<"**", Label, " Error**", "'''", res.Error[1], "'''">>
                  \o (IF verbose THEN NoNewlines(LogBlock) ELSE <<>>)
            /\ frags = <<>>
            /\ calls = <<>>
      /\ (res.Error = Nil /\ res.Failure # "") =>
            /\ NoNewlines(Last) =
                  <<"**", Label, " Failed**: ", res.Failure>>
                  \o (IF verbose THEN NoNewlines(LogBlock) ELSE <<>>)
            /\ frags = <<>>
            /\ calls = <<>>
      /\ (frags # <<>> \/ calls # <<>>) => NoTopLevel
      /\ NoTopLevel => Len(frags) = NumProjects

C1_Witness ==
    /\ Rendered
    /\ res.Error # Nil
    /\ res.Failure # ""
    /\ \E i \in 1..NumProjects : IsPlanSuccess(Projects[i])

(* C2: for every outcome shape the document contains the collapsible log block
   exactly once when verbose is true and not at all when it is false; the
   block is emitted at document level only, never inside a per-project
   fragment, and it ends the document, after the last project section. *)
C2_LogBlockOncePerDocument ==
    Rendered =>
      /\ Count(LogBlock, Last) = (IF verbose THEN 1 ELSE 0)
      /\ Count(<<"<details><summary>Log</summary>">>, Last) = (IF verbose THEN 1 ELSE 0)
      /\ \A i \in 1..Len(frags) :
            ~Contains(<<"<details><summary>Log</summary>">>, frags[i])
      /\ verbose => IsSuffix(LogBlock \o <<"\n">>, Last)

C2_Witness ==
    /\ Rendered
    /\ verbose
    /\ NoTopLevel
    /\ NumProjects = 2
    /\ DistinctPaths
    /\ Projects[1].Error # Nil
    /\ Count(<<"## ">>, Last) = 2

(* C3: given N > 1 project outcomes with pairwise distinct paths and no
   top-level error or failure, the output contains the banner
   "Ran {Label} in N directories:", exactly one bullet per input path and
   exactly N section headers "## {path}/", one per input path, each followed
   by that path's own fragment and a horizontal rule. *)
C3_MultiProjectDocument ==
    (Rendered /\ NoTopLevel /\ NumProjects > 1 /\ DistinctPaths) =>
      /\ Count(BannerOf(NumProjects), Last) = 1
      /\ Count(<<"Ran ">>, Last) = 1
      /\ Count(<<" * '">>, Last) = NumProjects
      /\ Count(<<"## ">>, Last) = NumProjects
      /\ \A i \in 1..NumProjects :
            /\ Count(BulletOf(Projects[i].Path), Last) = 1
            /\ Count(HeaderOf(Projects[i].Path), Last) = 1
            /\ Count(HeaderOf(Projects[i].Path) \o frags[i] \o Rule, Last) = 1

C3_Witness ==
    /\ Rendered
    /\ NoTopLevel
    /\ NumProjects = 2
    /\ Projects[1].Path = "a" /\ IsPlanSuccess(Projects[1])
    /\ Projects[2].Path = "b" /\ IsPlanSuccess(Projects[2])
    /\ Contains(DiscardLink("http://x/L1"), Last)
    /\ Contains(DiscardLink("http://x/L2"), Last)

(* C4: given exactly one project outcome and no top-level error or failure,
   the output contains no "Ran ... in" banner, no bullet list and no
   "## path/" header: it is that project's fragment followed by the optional
   log section. *)
C4_SingleProjectDocument ==
    (Rendered /\ NoTopLevel /\ NumProjects = 1) =>
      /\ ~Contains(<<"Ran ">>, Last)
      /\ ~Contains(<<" * '">>, Last)
      /\ ~Contains(<<"## ">>, Last)
      /\ IsPrefix(frags[1], Last)
      /\ NoNewlines(SubSeq(Last, Len(frags[1]) + 1, Len(Last))) =
            (IF verbose THEN NoNewlines(LogBlock) ELSE <<>>)

C4_Witness ==
    /\ Rendered
    /\ NoTopLevel
    /\ NumProjects = 1
    /\ ~verbose
    /\ cmdName = "apply"
    /\ Last = <<"'''diff", "\n", "Apply complete!", "\n", "'''", "\n", "\n">>

(* C5: during one Render the lock-URL builder is called exactly once for each
   project outcome rendered as PlanSuccess, in loop order, with that outcome's
   lock key, and the value it returns is the link target of that outcome's
   fragment; it is not called for an outcome rendered as Error, Failure,
   ApplySuccess or the fallback, so the number of calls equals the number of
   PlanSuccess fragments. *)
C5_BuilderOncePerPlanSuccess ==
    Rendered =>
      LET planned == SelectSeq([i \in 1..Len(frags) |-> i], PlanRendered)
      IN /\ Len(calls) = Len(planned)
         /\ \A n \in 1..Len(planned) :
               /\ Projects[planned[n]].PlanSuccess # NilPtr
               /\ calls[n] = heap[Projects[planned[n]].PlanSuccess].LockKey
               /\ Contains(DiscardLink(LockURLBuilder(calls[n])), frags[planned[n]])
         /\ \A i \in 1..Len(frags) : PlanRendered(i) <=> IsPlanSuccess(Projects[i])

C5_Witness ==
    /\ Rendered
    /\ NoTopLevel
    /\ NumProjects = 2
    /\ Projects[1].Error # Nil /\ Projects[1].PlanSuccess # NilPtr
    /\ IsPlanSuccess(Projects[2])
    /\ calls = <<"L2">>

(* C6: rendering is deterministic: two calls of Render on the same response,
   command name, log text and verbose flag, with the same builder, return the
   identical string, multi-project documents included. *)
C6_Deterministic ==
    \A j, k \in 1..Len(outs) : outs[j] = outs[k]

C6_Witness ==
    /\ Len(outs) = 2
    /\ NoTopLevel
    /\ NumProjects = 2
    /\ DistinctPaths
    /\ \E i \in 1..NumProjects : IsPlanSuccess(Projects[i])
    /\ Contains(<<"Ran ">>, outs[1])

(* C7: Render has no side effects on its inputs: every field of the response
   passed in, the fields of each project result's PlanSuccess value (diff
   text, lock key, lock URL) included, is after the call what it was before. *)
C7_NoSideEffects == [][heap' = heap /\ res' = res]_vars

(* C8: Render always completes and returns a string: a template execution
   that fails is turned into the text "Failed to render template, this is a
   bug: ..." at the point of failure (the fragment of the affected project,
   or the whole document for the document's template) and the other projects
   are still rendered. *)
C8_AlwaysReturnsText ==
    Rendered =>
          /\ Last # <<>>
          /\ 0 \in failed <=> Last = FailureText
          /\ \A i \in 1..Len(frags) :
                /\ i \in failed <=> frags[i] = FailureText
                /\ frags[i] # <<>>
          /\ (0 \notin failed /\ NoTopLevel /\ DistinctPaths) =>
                \A i \in 1..NumProjects :
                   IF NumProjects = 1
                   THEN IsPrefix(frags[i], Last)
                   ELSE Contains(HeaderOf(Projects[i].Path) \o frags[i] \o Rule, Last)

C8_Witness ==
    /\ Rendered
    /\ NoTopLevel
    /\ NumProjects = 2
    /\ DistinctPaths
    /\ failed = {1}
    /\ Projects[2].ApplySuccess # "" /\ Projects[2].PlanSuccess = NilPtr
    /\ Contains(HeaderOf(Projects[1].Path) \o FailureText \o Rule, Last)
    /\ Contains(<<"Apply complete!">>, Last)

(* C9 as stated: for every sequence of project outcomes (no top-level error
   or failure) each outcome of the sequence contributes its own fragment to
   the document, and an outcome with no variant populated contributes
   "Found no template. This is a bug!". *)
C9_EveryOutcomeContributes ==
    (Rendered /\ NoTopLevel) =>
      \A i \in 1..NumProjects :
         /\ Contains(frags[i], Last)
         /\ IsEmptyVariant(Projects[i]) => frags[i] = NoTemplateText

(* C9 amended: the fragments are keyed by path, so of the outcomes that share
   a path the last one contributes its fragment (under the path's header in a
   multi-project document, as the document's body in a single-project one);
   with pairwise distinct paths that is every outcome.  An outcome with no
   variant populated has the fragment "Found no template. This is a bug!". *)
C9_LastOutcomeOfEachPathContributes ==
    (Rendered /\ NoTopLevel) =>
      LET distinct == {Projects[i].Path : i \in 1..NumProjects}
      IN \A i \in 1..NumProjects :
            /\ IsEmptyVariant(Projects[i]) => frags[i] = NoTemplateText
            /\ frags[i] # <<>>
            /\ (\A j \in (i + 1)..NumProjects : Projects[j].Path # Projects[i].Path) =>
                  IF Cardinality(distinct) = 1
                  THEN IsPrefix(frags[i], Last)
                  ELSE Count(HeaderOf(Projects[i].Path) \o frags[i] \o Rule, Last) = 1

C9_Witness ==
    /\ Rendered
    /\ NoTopLevel
    /\ NumProjects = 2
    /\ DistinctPaths
    /\ IsEmptyVariant(Projects[1])
    /\ Projects[2].ApplySuccess # ""
    /\ Contains(HeaderOf(Projects[1].Path) \o NoTemplateText \o Rule, Last)

(* C10: the multi-project document does not depend on the order of the input
   sequence: for every permutation of the same project outcomes (distinct
   paths) Render returns the same string, in which the bullets and the
   "## {path}/" sections list the paths in ascending lexicographic order, the
   bullets in the order of the sections. *)
C10_OrderIndependent ==
    (Rendered /\ NoTopLevel /\ NumProjects > 1 /\ DistinctPaths) =>
      /\ \A f \in Permutations(1..NumProjects) :
            Render([res EXCEPT !.ProjectResults = [i \in 1..NumProjects |-> Projects[f[i]]]],
                   cmdName, log, verbose, InitHeap, {}).out = Last
      /\ Len(Following(" * '", Last)) = NumProjects
      /\ Ascending(Following(" * '", Last))
      /\ Following("## ", Last) = Following(" * '", Last)

C10_Witness ==
    /\ Rendered
    /\ NoTopLevel
    /\ NumProjects = 2
    /\ Projects[1].Path = "b"
    /\ Projects[2].Path = "ab"
    /\ Following("## ", Last) = <<"ab", "b">>

====
